---- MODULE Spec2Model ----
(***************************************************************************)
(* calculate_balance_changes of src/coreum/src/main.rs as a state machine. *)
(* One behaviour is one call: Init draws the three arguments, and the      *)
(* actions are the consecutive loops of the function body.                 *)
(*                                                                         *)
(* HashMap<K, V> is a function whose DOMAIN is the set of keys present.    *)
(* Vec<T> is a sequence.  i128 amounts are Int (the amounts drawn stay far *)
(* from the i128 range).  burn_rate and commission_rate are f64 in the     *)
(* source; the rates drawn here are dyadic fractions num/den, for which    *)
(* every f64 product below is exact and the f64 quotient is correctly      *)
(* rounded, so that ceil() of the f64 value is the ceiling of the exact    *)
(* rational value.                                                         *)
(***************************************************************************)
EXTENDS Integers, Sequences, FiniteSets, TLC

VARIABLES original_balances, definitions, multi_send_tx,
          balance_map, definition_map,
          input_total, output_total, non_issuer_input_sum,
          balance_changes, result, pc

vars == <<original_balances, definitions, multi_send_tx,
          balance_map, definition_map,
          input_total, output_total, non_issuer_input_sum,
          balance_changes, result, pc>>

(***************************************************************************)
(* Bounds of the inputs.                                                   *)
(***************************************************************************)
MaxAmount == 2

Rich == 3 * MaxAmount

(***************************************************************************)
(* Data types                                                              *)
(***************************************************************************)
Coin(d, a) == [denom |-> d, amount |-> a]

Balance(addr, cs) == [address |-> addr, coins |-> cs]

Rate(n, d) == [num |-> n, den |-> d]

DenomDefinition(d, i, b, c) ==
    [denom |-> d, issuer |-> i, burn_rate |-> b, commission_rate |-> c]

MultiSend(ins, outs) == [inputs |-> ins, outputs |-> outs]

EmptyMap == [k \in {} |-> 0]

(***************************************************************************)
(* The inputs drawn by Init.                                               *)
(***************************************************************************)
RatePairs == { <<Rate(0, 1), Rate(0, 1)>>,
               <<Rate(1, 2), Rate(1, 4)>>,
               <<Rate(1, 1), Rate(1, 2)>> }

\* An optional entry of a list: the empty list or the one-element list.
Opt(S) == {<<>>} \cup { <<x>> : x \in S }

DefinitionLists ==
    { <<DenomDefinition("denom1", "issuer", rp[1], rp[2])>> \o d2 :
        rp \in RatePairs,
        d2 \in Opt({ DenomDefinition("denom2", "issuer", Rate(1, 2), Rate(0, 1)) }) }

RichCoins == <<Coin("denom1", Rich), Coin("denom2", Rich)>>

OriginalBalanceLists ==
    { b1 \o b2 \o b3 :
        b1 \in Opt({ Balance("account1", <<>>),
                     Balance("account1", <<Coin("denom1", 1)>>),
                     Balance("account1", RichCoins) }),
        b2 \in Opt({ Balance("account2", RichCoins) }),
        b3 \in Opt({ Balance("issuer", RichCoins) }) }

SentCoins == { Coin("denom1", a) : a \in 0..MaxAmount } \cup { Coin("denom2", 1) }

InputLists ==
    { i1 \o i2 \o i3 :
        i1 \in Opt({ Balance("account1", <<c>>) : c \in SentCoins }),
        i2 \in Opt({ Balance("account2", <<c>>) : c \in SentCoins }),
        i3 \in Opt({ Balance("issuer", <<Coin("denom1", a)>>) : a \in 0..MaxAmount }) }

OutputLists ==
    { o1 \o o2 :
        o1 \in Opt({ Balance("account2", <<c>>) : c \in SentCoins }),
        o2 \in Opt({ Balance("issuer", <<c>>) : c \in SentCoins }) }

(***************************************************************************)
(* Helpers                                                                 *)
(***************************************************************************)
\* HashMap::get(k).unwrap_or(&0)
GetOr0(m, k) == IF k \in DOMAIN m THEN m[k] ELSE 0

\* *m.entry(k).or_insert(0) += v
AddEntry(m, k, v) ==
    IF k \in DOMAIN m THEN [m EXCEPT ![k] = @ + v] ELSE m @@ (k :> v)

\* HashMap::insert(k, v)
Insert(m, k, v) == [x \in DOMAIN m \cup {k} |-> IF x = k THEN v ELSE m[x]]

Min(a, b) == IF a <= b THEN a ELSE b

\* ceil(n / d) for n >= 0, d > 0
CeilDiv(n, d) == (n + d - 1) \div d

\* The (address, coin) pairs of a list of balances, in iteration order.
RECURSIVE CoinPairs(_)
CoinPairs(bs) ==
    IF bs = <<>> THEN <<>>
    ELSE [i \in 1..Len(Head(bs).coins) |->
            [address |-> Head(bs).address, coin |-> Head(bs).coins[i]]]
         \o CoinPairs(Tail(bs))

NoResult == [kind |-> "None", err |-> "", address |-> "", denom |-> "", changes |-> <<>>]

Ok(changes) == [kind |-> "Ok", err |-> "", address |-> "", denom |-> "", changes |-> changes]

Err(e, addr, d) == [kind |-> "Err", err |-> e, address |-> addr, denom |-> d, changes |-> <<>>]

Panic == [kind |-> "Panic", err |-> "", address |-> "", denom |-> "", changes |-> <<>>]

(***************************************************************************)
(* Init: the state at the call.                                            *)
(***************************************************************************)
Init ==
    /\ original_balances \in OriginalBalanceLists
    /\ definitions \in DefinitionLists
    /\ multi_send_tx \in { MultiSend(i, o) : i \in InputLists, o \in OutputLists }
    /\ balance_map = EmptyMap
    /\ definition_map = EmptyMap
    /\ input_total = EmptyMap
    /\ output_total = EmptyMap
    /\ non_issuer_input_sum = EmptyMap
    /\ balance_changes = <<>>
    /\ result = NoResult
    /\ pc = "index"

(***************************************************************************)
(* Lines 86-98: the two lookup maps.                                       *)
(***************************************************************************)
RECURSIVE CoinMap(_, _)
CoinMap(cs, m) ==
    IF cs = <<>> THEN m
    ELSE CoinMap(Tail(cs), Insert(m, Head(cs).denom, Head(cs).amount))

RECURSIVE BalanceMap(_, _)
BalanceMap(bs, m) ==
    IF bs = <<>> THEN m
    ELSE BalanceMap(Tail(bs), Insert(m, Head(bs).address, CoinMap(Head(bs).coins, EmptyMap)))

RECURSIVE DefinitionMap(_, _)
DefinitionMap(ds, m) ==
    IF ds = <<>> THEN m
    ELSE DefinitionMap(Tail(ds), Insert(m, Head(ds).denom, Head(ds)))

BuildIndexes ==
    /\ pc = "index"
    /\ balance_map' = BalanceMap(original_balances, EmptyMap)
    /\ definition_map' = DefinitionMap(definitions, EmptyMap)
    /\ pc' = "validate"
    /\ UNCHANGED <<original_balances, definitions, multi_send_tx, input_total,
                   output_total, non_issuer_input_sum, balance_changes, result>>

(***************************************************************************)
(* Lines 100-124: the loop over the inputs.  A coin whose sender is absent *)
(* from balance_map, or holds no entry for the coin's denom, is skipped    *)
(* (lines 105-106 have no else branch).  The balance is compared with the  *)
(* bare amount (line 107).  Only a sender that is not the issuer adds to   *)
(* non_issuer_input_sum and to input_total (lines 109-114).                *)
(***************************************************************************)
ValidateCoin(acc, address, coin) ==
    IF acc.result.kind # "None" THEN acc
    ELSE IF address \in DOMAIN balance_map
            /\ coin.denom \in DOMAIN balance_map[address]
    THEN IF balance_map[address][coin.denom] >= coin.amount
         THEN IF coin.denom \in DOMAIN definition_map
              THEN IF address # definition_map[coin.denom].issuer
                   THEN [acc EXCEPT
                           !.non_issuer_input_sum = AddEntry(@, coin.denom, coin.amount),
                           !.input_total = AddEntry(@, coin.denom, coin.amount)]
                   ELSE acc
              ELSE [acc EXCEPT !.result = Err("UnknownDenomination", "", coin.denom)]
         ELSE [acc EXCEPT !.result = Err("InsufficientBalance", address, coin.denom)]
    ELSE acc

RECURSIVE ValidateLoop(_, _)
ValidateLoop(pairs, acc) ==
    IF pairs = <<>> THEN acc
    ELSE ValidateLoop(Tail(pairs), ValidateCoin(acc, Head(pairs).address, Head(pairs).coin))

ValidateInputs ==
    /\ pc = "validate"
    /\ LET acc == ValidateLoop(CoinPairs(multi_send_tx.inputs),
                               [result |-> NoResult,
                                non_issuer_input_sum |-> EmptyMap,
                                input_total |-> EmptyMap])
       IN /\ non_issuer_input_sum' = acc.non_issuer_input_sum
          /\ input_total' = acc.input_total
          /\ result' = acc.result
          /\ pc' = IF acc.result.kind = "None" THEN "sums" ELSE "done"
    /\ UNCHANGED <<original_balances, definitions, multi_send_tx, balance_map,
                   definition_map, output_total, balance_changes>>

(***************************************************************************)
(* Lines 125-135: the output totals and the comparison of the sums.  The   *)
(* comparison iterates input_total, a HashMap: when several denoms         *)
(* mismatch, the one reported is whichever the iteration meets first.      *)
(***************************************************************************)
RECURSIVE OutputTotal(_, _)
OutputTotal(pairs, m) ==
    IF pairs = <<>> THEN m
    ELSE OutputTotal(Tail(pairs), AddEntry(m, Head(pairs).coin.denom, Head(pairs).coin.amount))

MismatchedDenoms(in_total, out_total) ==
    { d \in DOMAIN in_total : GetOr0(out_total, d) # in_total[d] }

SumsMismatch ==
    /\ pc = "sums"
    /\ LET out == OutputTotal(CoinPairs(multi_send_tx.outputs), EmptyMap)
       IN /\ output_total' = out
          /\ \E d \in MismatchedDenoms(input_total, out) :
                result' = Err("MismatchedSumForDenom", "", d)
    /\ pc' = "done"
    /\ UNCHANGED <<original_balances, definitions, multi_send_tx, balance_map,
                   definition_map, input_total, non_issuer_input_sum, balance_changes>>

SumsMatch ==
    /\ pc = "sums"
    /\ LET out == OutputTotal(CoinPairs(multi_send_tx.outputs), EmptyMap)
       IN /\ output_total' = out
          /\ MismatchedDenoms(input_total, out) = {}
    /\ pc' = "senders"
    /\ UNCHANGED <<original_balances, definitions, multi_send_tx, balance_map,
                   definition_map, input_total, non_issuer_input_sum, balance_changes,
                   result>>

(***************************************************************************)
(* Lines 137-168: one entry of balance_changes per input balance.          *)
(***************************************************************************)
\* Lines 143-148 and 150-155:
\* A variant that rounds with floor() + 1 in place of ceil().
AccountShareFloorPlusOne(rate, amount, nis, out_total) ==
    IF nis = 0 THEN 0
    ELSE (Min(nis, out_total) * rate.num * amount) \div (rate.den * nis) + 1

\* Lines 143-148 and 150-155:
\*   (min(non_issuer_input_sum, output_total) as f64 * rate
\*        * amount as f64 / non_issuer_input_sum as f64).ceil() as i128
\* With non_issuer_input_sum = 0 the f64 value is 0.0 / 0.0 = NaN, and
\* `NaN as i128` is 0.
AccountShare(rate, amount, nis, out_total) ==
    IF nis = 0 THEN 0
    ELSE CeilDiv(Min(nis, out_total) * rate.num * amount, rate.den * nis)

\* Line 159: the amount pushed for a sender that is not the issuer.
SenderDelta(coin, definition, nis, out_total) ==
    - coin.amount
    - AccountShare(definition.burn_rate, coin.amount, nis, out_total)
    - AccountShare(definition.commission_rate, coin.amount, nis, out_total)

\* A variant of line 163 that charges the issuer the burn on its own amount.
IssuerDeltaCharged(coin, definition) ==
    - coin.amount
    - CeilDiv(definition.burn_rate.num * coin.amount, definition.burn_rate.den)

\* Line 163: the amount pushed for a sender that is the issuer.
IssuerDelta(coin, definition) ==
    - coin.amount

\* One coin of one input balance (lines 141-165).  st.panic records an
\* unwrap() of None: the denom missing from non_issuer_input_sum or from
\* output_total (lines 143, 147), the sender missing from balance_map or
\* holding no entry for the denom (lines 157, 161).
SenderCoin(st, address, coin) ==
    IF st.panic THEN st
    ELSE IF coin.denom \notin DOMAIN definition_map THEN st
    ELSE LET definition == definition_map[coin.denom]
             held == /\ address \in DOMAIN st.balance_map
                     /\ coin.denom \in DOMAIN st.balance_map[address]
         IN IF address # definition.issuer
            THEN IF \/ coin.denom \notin DOMAIN non_issuer_input_sum
                    \/ coin.denom \notin DOMAIN output_total
                    \/ ~held
                 THEN [st EXCEPT !.panic = TRUE]
                 ELSE LET delta == SenderDelta(coin, definition,
                                               non_issuer_input_sum[coin.denom],
                                               output_total[coin.denom])
                      IN [st EXCEPT
                            !.balance_map[address][coin.denom] = @ + delta,
                            !.new_coins = Append(@, Coin(coin.denom, delta))]
            ELSE IF ~held
                 THEN [st EXCEPT !.panic = TRUE]
                 ELSE LET delta == IssuerDelta(coin, definition)
                      IN [st EXCEPT
                            !.balance_map[address][coin.denom] = @ + delta,
                            !.new_coins = Append(@, Coin(coin.denom, delta))]

RECURSIVE SenderCoins(_, _, _)
SenderCoins(st, address, coins) ==
    IF coins = <<>> THEN st
    ELSE SenderCoins(SenderCoin(st, address, Head(coins)), address, Tail(coins))

RECURSIVE SenderLoop(_, _)
SenderLoop(st, bs) ==
    IF bs = <<>> \/ st.panic THEN st
    ELSE LET after == SenderCoins([st EXCEPT !.new_coins = <<>>],
                                  Head(bs).address, Head(bs).coins)
         IN SenderLoop(IF after.panic THEN after
                       ELSE [after EXCEPT
                               !.balance_changes =
                                   Append(@, Balance(Head(bs).address, after.new_coins))],
                       Tail(bs))

SendersResult ==
    SenderLoop([panic |-> FALSE, balance_map |-> balance_map,
                new_coins |-> <<>>, balance_changes |-> <<>>],
               multi_send_tx.inputs)

ApplySenders ==
    /\ pc = "senders"
    /\ ~SendersResult.panic
    /\ balance_map' = SendersResult.balance_map
    /\ balance_changes' = SendersResult.balance_changes
    /\ pc' = "receivers"
    /\ UNCHANGED <<original_balances, definitions, multi_send_tx, definition_map,
                   input_total, output_total, non_issuer_input_sum, result>>

ApplySendersPanic ==
    /\ pc = "senders"
    /\ SendersResult.panic
    /\ result' = Panic
    /\ pc' = "done"
    /\ UNCHANGED <<original_balances, definitions, multi_send_tx, balance_map,
                   definition_map, input_total, output_total, non_issuer_input_sum,
                   balance_changes>>

(***************************************************************************)
(* Lines 169-184: the outputs are added to balance_map, a local that is    *)
(* dropped at the return; balance_changes is returned as the senders' loop *)
(* left it.                                                                *)
(***************************************************************************)
ReceiverCoin(m, address, coin) ==
    IF address \in DOMAIN m
    THEN IF coin.denom \in DOMAIN m[address]
         THEN [m EXCEPT ![address][coin.denom] = @ + coin.amount]
         ELSE [m EXCEPT ![address] = Insert(@, coin.denom, coin.amount)]
    ELSE Insert(m, address, Insert(EmptyMap, coin.denom, coin.amount))

RECURSIVE ReceiverLoop(_, _)
ReceiverLoop(m, pairs) ==
    IF pairs = <<>> THEN m
    ELSE ReceiverLoop(ReceiverCoin(m, Head(pairs).address, Head(pairs).coin), Tail(pairs))

ApplyReceivers ==
    /\ pc = "receivers"
    /\ balance_map' = ReceiverLoop(balance_map, CoinPairs(multi_send_tx.outputs))
    /\ result' = Ok(balance_changes)
    /\ pc' = "done"
    /\ UNCHANGED <<original_balances, definitions, multi_send_tx, definition_map,
                   input_total, output_total, non_issuer_input_sum, balance_changes>>

Next ==
    \/ BuildIndexes
    \/ ValidateInputs
    \/ SumsMismatch
    \/ SumsMatch
    \/ ApplySenders
    \/ ApplySendersPanic
    \/ ApplyReceivers

Spec == Init /\ [][Next]_vars

(***************************************************************************)
(* Vocabulary of the properties, computed from the three arguments of the  *)
(* call and from the returned value only.                                  *)
(***************************************************************************)
Denoms == {"denom1", "denom2"}

Done == pc = "done"

\* The call has returned a value (the panics are C10's matter).
Returns == Done /\ result.kind \in {"Ok", "Err"}

Succeeded == Done /\ result.kind = "Ok"

TxInputs == CoinPairs(multi_send_tx.inputs)

TxOutputs == CoinPairs(multi_send_tx.outputs)

RECURSIVE SumAmounts(_)
SumAmounts(pairs) ==
    IF pairs = <<>> THEN 0 ELSE Head(pairs).coin.amount + SumAmounts(Tail(pairs))

Defined(d) == \E i \in 1..Len(definitions) : definitions[i].denom = d

DefinitionOf(d) ==
    definitions[CHOOSE i \in 1..Len(definitions) : definitions[i].denom = d]

IsIssuer(addr, d) == Defined(d) /\ DefinitionOf(d).issuer = addr

\* Totals over all inputs and over all outputs, the issuer's included.
InputSum(d) == SumAmounts(SelectSeq(TxInputs, LAMBDA p : p.coin.denom = d))

OutputSum(d) == SumAmounts(SelectSeq(TxOutputs, LAMBDA p : p.coin.denom = d))

InputFrom(addr, d) ==
    SumAmounts(SelectSeq(TxInputs, LAMBDA p : p.coin.denom = d /\ p.address = addr))

OutputTo(addr, d) ==
    SumAmounts(SelectSeq(TxOutputs, LAMBDA p : p.coin.denom = d /\ p.address = addr))

NonIssuerInputSum(d) == InputSum(d) - InputFrom(DefinitionOf(d).issuer, d)

NonIssuerOutputSum(d) == OutputSum(d) - OutputTo(DefinitionOf(d).issuer, d)

FeeBase(d) == Min(NonIssuerInputSum(d), NonIssuerOutputSum(d))

\* ceil(fee_base(d) * rate * a / non_issuer_input_sum(d))
ExactShare(rate, a, d) ==
    IF NonIssuerInputSum(d) = 0 THEN 0
    ELSE CeilDiv(FeeBase(d) * rate.num * a, rate.den * NonIssuerInputSum(d))

BurnShare(p) ==
    IF IsIssuer(p.address, p.coin.denom) THEN 0
    ELSE ExactShare(DefinitionOf(p.coin.denom).burn_rate, p.coin.amount, p.coin.denom)

CommissionShare(p) ==
    IF IsIssuer(p.address, p.coin.denom) THEN 0
    ELSE ExactShare(DefinitionOf(p.coin.denom).commission_rate, p.coin.amount, p.coin.denom)

RequiredDebit(p) == p.coin.amount + BurnShare(p) + CommissionShare(p)

RECURSIVE SumBurnShares(_)
SumBurnShares(pairs) ==
    IF pairs = <<>> THEN 0 ELSE BurnShare(Head(pairs)) + SumBurnShares(Tail(pairs))

RECURSIVE SumCommissionShares(_)
SumCommissionShares(pairs) ==
    IF pairs = <<>> THEN 0
    ELSE CommissionShare(Head(pairs)) + SumCommissionShares(Tail(pairs))

TotalBurned(d) == SumBurnShares(SelectSeq(TxInputs, LAMBDA p : p.coin.denom = d))

TotalCommission(d) == SumCommissionShares(SelectSeq(TxInputs, LAMBDA p : p.coin.denom = d))

\* The balance held in original_balances, zero when the address or the
\* denom is absent.
HeldBalance(addr, d) ==
    LET held == SelectSeq(CoinPairs(original_balances),
                          LAMBDA p : p.address = addr /\ p.coin.denom = d)
    IN IF held = <<>> THEN 0 ELSE held[Len(held)].coin.amount

\* The net delta the returned list reports for (addr, d).
DeltaOf(addr, d) ==
    SumAmounts(SelectSeq(CoinPairs(result.changes),
                         LAMBDA p : p.address = addr /\ p.coin.denom = d))

Reported(addr, d) ==
    \E i \in 1..Len(result.changes) :
        /\ result.changes[i].address = addr
        /\ \E j \in 1..Len(result.changes[i].coins) :
              result.changes[i].coins[j].denom = d

InputIdx == 1..Len(TxInputs)

OutputIdx == 1..Len(TxOutputs)

HasUnknownDenom == \E i \in InputIdx : ~Defined(TxInputs[i].coin.denom)

HasInsufficient ==
    \E i \in InputIdx :
        /\ Defined(TxInputs[i].coin.denom)
        /\ HeldBalance(TxInputs[i].address, TxInputs[i].coin.denom) < RequiredDebit(TxInputs[i])

HasMismatch == \E d \in Denoms : InputSum(d) # OutputSum(d)

Returned(e) == result.kind = "Err" /\ result.err = e

(***************************************************************************)
(* Properties                                                              *)
(***************************************************************************)

\* C1: when some denomination's amounts summed over all inputs differ from
\* its amounts summed over all outputs, the value the call returns is an
\* error and not Ok, and that error is the mismatched-sum error when the
\* mismatch is the only violation of the multi-send.
C1_MismatchRejected ==
    (Returns /\ HasMismatch) =>
        /\ result.kind = "Err"
        /\ (~HasUnknownDenom /\ ~HasInsufficient) => Returned("MismatchedSumForDenom")

\* C2: when some sender's existing balance for an input denomination (zero
\* when absent) is less than its input amount plus its burn share plus its
\* commission share, the value the call returns is an error and not Ok, and
\* that error is the insufficient-balance error when it is the only
\* violation.
C2_InsufficientRejected ==
    (Returns /\ HasInsufficient) =>
        /\ result.kind = "Err"
        /\ (~HasUnknownDenom /\ ~HasMismatch) => Returned("InsufficientBalance")

\* C3: when a coin of the inputs names a denomination without a
\* DenomDefinition, the value the call returns is an error and not Ok,
\* whatever the sender holds, and that error is the unknown-denomination
\* error when it is the only violation.
C3_UnknownDenomRejected ==
    (Returns /\ HasUnknownDenom) =>
        /\ result.kind = "Err"
        /\ (~HasInsufficient /\ ~HasMismatch) => Returned("UnknownDenomination")

\* C4: the mismatched-sum error is returned only when some denomination's
\* total over all inputs differs from its total over all outputs, and a
\* multi-send with all denominations defined, all senders funded and equal
\* totals is accepted with Ok, the issuer being a sender or a receiver or not.
C4_BalancedAccepted ==
    Returns =>
        /\ Returned("MismatchedSumForDenom") => HasMismatch
        /\ (~HasUnknownDenom /\ ~HasInsufficient /\ ~HasMismatch) => result.kind = "Ok"

\* C5: in a successful result the delta of a non-issuer sender s for
\* denomination d with input amount a is
\* -(a + ceil(fee_base * burn_rate * a / non_issuer_input_sum)
\*     + ceil(fee_base * commission_rate * a / non_issuer_input_sum)),
\* fee_base being min(non-issuer input sum, non-issuer output sum).  Stated
\* for the senders that receive none of d, whose delta is the debit alone.
C5_SenderDebit ==
    Succeeded =>
        \A i \in InputIdx :
            LET p == TxInputs[i] IN
            ( /\ Defined(p.coin.denom)
              /\ ~IsIssuer(p.address, p.coin.denom)
              /\ OutputTo(p.address, p.coin.denom) = 0
              /\ InputFrom(p.address, p.coin.denom) = p.coin.amount )
            => DeltaOf(p.address, p.coin.denom) = - RequiredDebit(p)

\* C6: in a successful result an address that is only a receiver of a
\* denomination (neither a sender of it nor its issuer) has an entry for
\* that denomination whose delta is the declared output amount.
C6_ReceiverCredit ==
    Succeeded =>
        \A i \in OutputIdx :
            LET p == TxOutputs[i] IN
            ( /\ ~IsIssuer(p.address, p.coin.denom)
              /\ \A j \in InputIdx :
                    ~(TxInputs[j].address = p.address /\ TxInputs[j].coin.denom = p.coin.denom) )
            => /\ Reported(p.address, p.coin.denom)
               /\ DeltaOf(p.address, p.coin.denom) = OutputTo(p.address, p.coin.denom)

\* C7: in a successful result, for every denomination whose senders are
\* charged a non-zero commission, the issuer's delta holds the sum of the
\* senders' rounded commission shares (net of what the issuer itself sends
\* and receives of that denomination).
C7_IssuerCommission ==
    Succeeded =>
        \A d \in Denoms :
            (Defined(d) /\ TotalCommission(d) > 0)
            => DeltaOf(DefinitionOf(d).issuer, d)
                   = TotalCommission(d)
                     + OutputTo(DefinitionOf(d).issuer, d)
                     - InputFrom(DefinitionOf(d).issuer, d)

\* C8: conservation: in a successful result, for every denomination, the
\* sum of all deltas of the returned list is minus the sum of the senders'
\* rounded burn shares.
C8_Conservation ==
    Succeeded =>
        \A d \in Denoms :
            Defined(d) =>
                SumAmounts(SelectSeq(CoinPairs(result.changes), LAMBDA p : p.coin.denom = d))
                    = - TotalBurned(d)

\* C9: issuer exemption: in a successful result, for every input coin whose
\* sender is the issuer of the coin's denomination, the debit reported for
\* that sender and denomination is the input amount exactly, with no burn
\* and no commission added, whatever the rates are.
C9_IssuerExemption ==
    Succeeded =>
        \A i \in InputIdx :
            LET p == TxInputs[i] IN
            IsIssuer(p.address, p.coin.denom)
            => /\ Reported(p.address, p.coin.denom)
               /\ DeltaOf(p.address, p.coin.denom) = - InputFrom(p.address, p.coin.denom)

\* A successful call in which the issuer sends a non-zero amount of a
\* denomination with a non-zero burn rate, next to a non-issuer sender that
\* is charged a fee.
C9_Witness ==
    /\ Succeeded
    /\ \E i, j \in InputIdx :
          /\ IsIssuer(TxInputs[i].address, TxInputs[i].coin.denom)
          /\ TxInputs[i].coin.amount > 0
          /\ DefinitionOf(TxInputs[i].coin.denom).burn_rate.num > 0
          /\ TxInputs[j].coin.denom = TxInputs[i].coin.denom
          /\ ~IsIssuer(TxInputs[j].address, TxInputs[j].coin.denom)
          /\ DeltaOf(TxInputs[j].address, TxInputs[j].coin.denom) < - TxInputs[j].coin.amount

\* C10: every call ends with a returned Ok or a returned Err, never with a
\* panic.
C10_NoPanic ==
    Done => result.kind \in {"Ok", "Err"}


\* The first denomination, in the order of the input coins, that belongs to S.
FirstInputDenom(S) ==
    LET hits == SelectSeq(TxInputs, LAMBDA p : p.coin.denom \in S)
    IN hits[1].coin.denom

\* C11: the outcome is a function of the inputs: when several denominations
\* fail the comparison of the sums, the mismatched-sum error names the first
\* of them in the order the denominations appear in the inputs, whatever the
\* iteration order of input_total is.
C11_FirstViolationReported ==
    (Done /\ Returned("MismatchedSumForDenom")) =>
        result.denom = FirstInputDenom(MismatchedDenoms(input_total, output_total))

\* The coins of denomination d sent by addresses other than d's issuer.
NonIssuerSenders(d) ==
    SelectSeq(TxInputs, LAMBDA p : p.coin.denom = d /\ ~IsIssuer(p.address, d))

RECURSIVE SumShares(_, _, _)
SumShares(pairs, rate, d) ==
    IF pairs = <<>> THEN 0
    ELSE AccountShare(rate, Head(pairs).coin.amount,
                      GetOr0(non_issuer_input_sum, d), GetOr0(output_total, d))
         + SumShares(Tail(pairs), rate, d)

\* rate.den * (sum of the rounded shares - unrounded total), the unrounded
\* total of lines 143-144 and 150-151 being
\* min(non_issuer_input_sum, output_total) * rate.
ScaledExcess(rate, d) ==
    rate.den * SumShares(NonIssuerSenders(d), rate, d)
    - Min(GetOr0(non_issuer_input_sum, d), GetOr0(output_total, d)) * rate.num

ChargedDenoms == { d \in Denoms : Defined(d) /\ Len(NonIssuerSenders(d)) >= 1 }

====
